---- MODULE Spec2Model ----
(***************************************************************************)
(* Changelog release management of smithy-lang/smithy (.changes):          *)
(* staged change files, the release cut (both the smithy_changelog and the *)
(* older tool implementation), rendering and the amend workflow (Spec, and *)
(* AmendSpec for staging and amend alone);                                 *)
(* the methods of Version, Release.change_map, staging and Change.from_json *)
(* as values (ValueSpec); the GitHub client request by request (RemoteSpec, *)
(* and RemoteFairSpec with the requests running to their end); two release  *)
(* cuts at the same time (RaceSpec).                                        *)
(*                                                                         *)
(* Texts that the code parses (versions, release file names) are modelled  *)
(* as sequences of one-character strings; a Python Optional is a sequence  *)
(* of length 0 (None / no such file) or 1.                                 *)
(***************************************************************************)
EXTENDS Integers, Sequences, FiniteSets, TLC

(***************************************************************************)
(* Bounds of the model.                                                    *)
(***************************************************************************)
MaxOps == 3

None == <<>>
Some(x) == <<x>>
IsNone(o) == Len(o) = 0
Get(o) == o[1]
Opt(S) == {None} \cup {Some(x) : x \in S}

(***************************************************************************)
(* Text helpers: str.split(sep, maxsplit), str.strip(), int(str).          *)
(***************************************************************************)
Digits == <<"0", "1", "2", "3", "4", "5", "6", "7", "8", "9">>
IsDigit(c) == \E i \in 1..10 : Digits[i] = c
DigitVal(c) == (CHOOSE i \in 1..10 : Digits[i] = c) - 1

\* a faulty variant of NatToStr that keeps the last digit only
NatToStrLastDigit(n) == <<Digits[(n % 10) + 1]>>

RECURSIVE NatToStr(_)
NatToStr(n) == IF n < 10 THEN <<Digits[n + 1]>>
               ELSE NatToStr(n \div 10) \o <<Digits[(n % 10) + 1]>>

IntToStr(n) == IF n < 0 THEN <<"-">> \o NatToStr(0 - n) ELSE NatToStr(n)

\* the position of the first sep in s (s holds one)
FirstAt(s, sep) == CHOOSE k \in 1..Len(s) : s[k] = sep /\ \A j \in 1..(k - 1) : s[j] # sep

\* str.split(sep, maxsplit); maxsplit = -1 splits at every separator
RECURSIVE Split(_, _, _)
SplitAt(s, sep, maxsplit, i) ==
    <<SubSeq(s, 1, i - 1)>> \o Split(SubSeq(s, i + 1, Len(s)), sep, maxsplit - 1)
Split(s, sep, maxsplit) ==
    IF maxsplit = 0 \/ ~ \E i \in 1..Len(s) : s[i] = sep
    THEN <<s>>
    ELSE SplitAt(s, sep, maxsplit, FirstAt(s, sep))

Whitespace == {" ", "\n"}

RECURSIVE Strip(_)
Strip(s) == IF s = <<>> THEN s
            ELSE IF Head(s) \in Whitespace THEN Strip(Tail(s))
            ELSE IF s[Len(s)] \in Whitespace THEN Strip(SubSeq(s, 1, Len(s) - 1))
            ELSE s

RECURSIVE DigitsVal(_)
DigitsVal(s) == IF s = <<>> THEN 0
                ELSE 10 * DigitsVal(SubSeq(s, 1, Len(s) - 1)) + DigitVal(s[Len(s)])

IsSigned(t) == t # <<>> /\ Head(t) \in {"+", "-"}
Unsigned(t) == IF IsSigned(t) THEN Tail(t) ELSE t
AllDigits(d) == d # <<>> /\ \A i \in 1..Len(d) : IsDigit(d[i])

\* int(text) of a text without surrounding blanks: one sign is accepted, then digits
IntOfStripped(t) ==
    IF AllDigits(Unsigned(t))
    THEN [ok |-> TRUE,
          val |-> IF Head(t) = "-" THEN 0 - DigitsVal(Tail(t)) ELSE DigitsVal(Unsigned(t))]
    ELSE [ok |-> FALSE, val |-> 0]

\* int(text): surrounding blanks are ignored
PyInt(text) == IntOfStripped(Strip(text))

RECURSIVE MapSeq(_, _)
MapSeq(Op(_), s) == IF s = <<>> THEN <<>> ELSE <<Op(Head(s))>> \o MapSeq(Op, Tail(s))

\* sorted(): every order of the set S in which no element comes after one that
\* Before() puts behind it; elements that Before() does not separate may come in
\* either order (the directory listing decides)
RECURSIVE SortedOrders(_, _)
SortedOrders(Before(_, _), S) ==
    IF S = {} THEN {<<>>}
    ELSE UNION {{<<x>> \o rest : rest \in SortedOrders(Before, S \ {x})} :
                   x \in {y \in S : \A z \in S : ~ Before(z, y)}}

(***************************************************************************)
(* Value model: ChangeType, Change, Version, Release.                      *)
(***************************************************************************)
ChangeType == {"FEATURE", "BUGFIX", "DOCUMENTATION", "BREAK", "OTHER"}

\* ChangeType.__str__: the lower-case member name
TypeStr(t) == CASE t = "FEATURE" -> "feature"
                [] t = "BUGFIX" -> "bugfix"
                [] t = "DOCUMENTATION" -> "documentation"
                [] t = "BREAK" -> "break"
                [] t = "OTHER" -> "other"

\* a faulty variant of TypeOrder: the order in which the members are declared
TypeOrderDeclared(t) == CASE t = "FEATURE" -> 0
                          [] t = "BUGFIX" -> 1
                          [] t = "DOCUMENTATION" -> 2
                          [] t = "BREAK" -> 3
                          [] t = "OTHER" -> 4

\* ChangeType.order
TypeOrder(t) == CASE t = "BREAK" -> 0
                  [] t = "FEATURE" -> 1
                  [] t = "BUGFIX" -> 2
                  [] t = "DOCUMENTATION" -> 3
                  [] t = "OTHER" -> 4

\* str.upper() on the type tags that occur in staged files
Upper(tag) == CASE tag = "feature" -> "FEATURE"
                [] tag = "Feature" -> "FEATURE"
                [] tag = "bugfix" -> "BUGFIX"
                [] tag = "documentation" -> "DOCUMENTATION"
                [] tag = "break" -> "BREAK"
                [] tag = "other" -> "OTHER"
                [] tag = "misc" -> "MISC"

Version(ma, mi, pa) == [major |-> ma, minor |-> mi, patch |-> pa]

\* a faulty variant of VersionBump: a minor bump that keeps the patch number
VersionBumpKeepsPatch(v, bump) ==
    IF bump = "minor" THEN Version(v.major, v.minor + 1, v.patch)
    ELSE Version(v.major, v.minor, v.patch + 1)

\* Version.bump
VersionBump(v, bump) ==
    IF bump = "minor" THEN Version(v.major, v.minor + 1, 0)
    ELSE Version(v.major, v.minor, v.patch + 1)

\* Version.__lt__
VersionLt(a, b) ==
    IF a.major # b.major THEN a.major < b.major
    ELSE IF a.minor # b.minor THEN a.minor < b.minor
    ELSE a.patch < b.patch

\* Version.__str__
VersionStr(v) == IntToStr(v.major) \o <<".">> \o IntToStr(v.minor)
                     \o <<".">> \o IntToStr(v.patch)

NoVersion == [ok |-> FALSE, v |-> Version(0, 0, 0)]

VersionOfInts(n) ==
    IF n[1].ok /\ n[2].ok /\ n[3].ok
    THEN [ok |-> TRUE, v |-> Version(n[1].val, n[2].val, n[3].val)]
    ELSE NoVersion

\* the tail of from_str / from_path: the part count is checked, then int() of each
VersionOfParts(parts, count) ==
    IF Len(parts) # count THEN NoVersion
    ELSE VersionOfInts([i \in 1..3 |-> PyInt(parts[i])])

\* a faulty variant of VersionFromStr that splits at every dot and reads the first
\* three parts
VersionFromStrFirstThree(text) ==
    LET parts == Split(text, ".", -1)
    IN  VersionOfParts(IF Len(parts) > 3 THEN SubSeq(parts, 1, 3) ELSE parts, 3)

\* Version.from_str
VersionFromStr(text) == VersionOfParts(Split(text, ".", 2), 3)

\* Version.from_path (applied to the file name)
VersionFromPath(name) == VersionOfParts(Split(name, ".", 3), 4)

\* render.Version.from_path: split(".") without a limit
RenderVersionFromPath(name) == VersionOfParts(Split(name, ".", -1), 4)

NoChange == [type |-> "OTHER", description |-> "", pull_requests |-> <<>>]

\* Change.from_json on the decoded content of a staged file
ChangeFromJson(data) ==
    IF data.kind # "obj" \/ Upper(data.type) \notin ChangeType
    THEN [ok |-> FALSE, change |-> NoChange]
    ELSE [ok |-> TRUE,
          change |-> [type |-> Upper(data.type),
                      description |-> data.description,
                      pull_requests |-> IF data.prs = "list" THEN data.pull_requests
                                        ELSE <<>>]]

\* asdict(change) as json.dumps(..., default=str) stores it
ChangeWrite(change) ==
    [kind |-> "obj", type |-> TypeStr(change.type), description |-> change.description,
     prs |-> "list", pull_requests |-> change.pull_requests]

\* datetime.date.today().isoformat()
Today == "2026-11-04"

\* a faulty variant of ReleaseDate that ignores the supplied date
ReleaseDateToday(date) == Today

\* Release.__init__ and tool release(): `date or today`
ReleaseDate(date) == IF IsNone(date) \/ Get(date) = "" THEN Today ELSE Get(date)

\* Release.write: asdict with the version as text
ReleaseWrite(versionText, date, changes) ==
    [kind |-> "json", version |-> versionText, date |-> date,
     changes |-> MapSeq(ChangeWrite, changes)]

JsonExt == <<"j", "s", "o", "n">>
MdExt == <<"m", "d">>

\* RELEASES_DIR / f"{version}.json"
ReleaseFileName(versionText) == versionText \o <<".">> \o JsonExt

\* the extension a glob pattern "*.ext" matches on
EndsWith(name, ext) ==
    /\ Len(name) > Len(ext)
    /\ SubSeq(name, Len(name) - Len(ext) + 1, Len(name)) = ext
    /\ name[Len(name) - Len(ext)] = "."

\* no value-level computation is being followed
NoCalc == [kind |-> "none", in |-> <<>>, fn |-> "", arg |-> "", out |-> <<>>]

\* no call into the GitHub client is being followed
NoCall ==
    [pc |-> "none", token |-> TRUE, sha |-> TRUE, op |-> "", body |-> "", file |-> "",
     start_line |-> None, end_line |-> None, allow_duplicate |-> FALSE, dup |-> FALSE,
     page |-> 1, gets |-> 0, posts |-> 0, sleeps |-> 0, created |-> 0, status |-> "",
     err |-> "", calls |-> 0, seen |-> <<>>,
     before |-> [pc |-> "none", created |-> 0, dup |-> FALSE, allow_duplicate |-> FALSE]]

(***************************************************************************)
(* State.                                                                  *)
(***************************************************************************)
VARIABLES
    staged,     \* NEXT_RELEASE_DIR: file name -> decoded content
    relDir,     \* RELEASES_DIR exists
    releases,   \* RELEASES_DIR: file name -> content
    marker,     \* the version file: None when it does not exist, else its text
    changelog,  \* the changelog file: None when it does not exist, else its text
    printed,    \* what render() printed during the current operation
    cut,        \* per invocation of release(): arguments, locals and position
    am,         \* the invocation of amend(): arguments, locals and position
    issueComments,   \* the issue comments of the pull request, oldest first
    reviewComments,  \* the review comments of the pull request, oldest first
    consumed,   \* history: per change, how many times a cut that wrote its release held it
    nOps,       \* number of new_change, release() and amend() calls so far
    calc,       \* a value-level computation: the input drawn and what was applied to it
    gh          \* a call into the GitHub client: arguments, position, requests issued

\* the repository, the pull request and the invocations working on them
repoVars == <<staged, relDir, releases, marker, changelog, printed, cut, am, issueComments,
              reviewComments, consumed, nOps>>

vars == <<repoVars, calc, gh>>

remoteVars == <<issueComments, reviewComments>>

Procs == {1}

\* a faulty variant of Without that removes nothing
WithoutNothing(f, x) == f

\* the directory without the file x
Without(f, x) == [y \in (DOMAIN f) \ {x} |-> f[y]]

\* Path.glob("*.json") over the staging directory
GlobStaged(dir) == {f \in DOMAIN dir : f.ext = "json"}

\* the *.json and *.md files of the releases directory
ReleaseFiles(dir) == {n \in DOMAIN dir : EndsWith(n, JsonExt) \/ EndsWith(n, MdExt)}

\* the sort key of get_release_files, per file
PathVersions(files) == [n \in files |-> VersionFromPath(n)]

NoFiles(ok) == [ok |-> ok, first |-> None, v |-> Version(0, 0, 0)]

\* a faulty variant of HighestFirst that sorts without reverse=True
LowestFirst(files, pv) ==
    CHOOSE n \in files : \A m \in files : ~ VersionLt(pv[m].v, pv[n].v)

\* sorted(..., reverse=True): the file of the highest version comes first
HighestFirst(files, pv) ==
    CHOOSE n \in files : \A m \in files : ~ VersionLt(pv[n].v, pv[m].v)

SortedReleaseFiles(files, pv) ==
    IF \E n \in files : ~ pv[n].ok THEN NoFiles(FALSE)
    ELSE IF files = {} THEN NoFiles(TRUE)
    ELSE [ok |-> TRUE, first |-> Some(HighestFirst(files, pv)),
          v |-> pv[HighestFirst(files, pv)].v]

\* Release.get_release_files: whether the sort succeeds, the first file of the result
\* and its version
GetReleaseFiles(dir) == SortedReleaseFiles(ReleaseFiles(dir), PathVersions(ReleaseFiles(dir)))

NotComputed(err) == [ok |-> FALSE, err |-> err, v |-> Version(0, 0, 0)]

\* `base.bump(bump)` once the base version is parsed
BumpBase(base, bump) ==
    IF base.ok THEN [ok |-> TRUE, err |-> "", v |-> VersionBump(base.v, bump)]
    ELSE NotComputed("InvalidVersion")

\* the branch of _compute_version without a version file
BumpHighest(files, bump) ==
    IF ~ files.ok THEN NotComputed("InvalidVersion")
    ELSE IF IsNone(files.first) THEN NotComputed("NoBaseVersion")
    ELSE [ok |-> TRUE, err |-> "", v |-> VersionBump(files.v, bump)]

\* _compute_version
ComputeVersion(bump, version_file, markerFile, dir) ==
    IF ~ IsNone(version_file)
    THEN IF IsNone(markerFile) THEN NotComputed("FileNotFoundError")
         ELSE BumpBase(VersionFromStr(Strip(Get(markerFile))), bump)
    ELSE BumpHighest(GetReleaseFiles(dir), bump)

(***************************************************************************)
(* Inputs and initial directory contents.                                  *)
(***************************************************************************)
\* the changes that new_change stages; a FEATURE comes from a hand-written file
StageInputs ==
    {[type |-> t, description |-> "Add X",
      pull_requests |-> IF t = "DOCUMENTATION" THEN <<"#7">> ELSE <<>>] :
         t \in {"BUGFIX", "BREAK", "DOCUMENTATION", "OTHER"}}

ExplicitVersions == {Version(1, 1, 0)}
Bumps == {"minor", "patch"}
VersionFiles == {"VERSION"}
Dates == {"2025-07-29"}

\* the calls of smithy_changelog release(): --version and --bump are a mutually
\* exclusive group of the command line
ChangelogCalls ==
    {[version |-> Some(v), bump |-> None, version_file |-> Some(f), date |-> None] :
        v \in ExplicitVersions, f \in VersionFiles}
    \cup
    {[version |-> None, bump |-> b, version_file |-> Some(f), date |-> None] :
        b \in Opt(Bumps), f \in VersionFiles}
    \cup
    {[version |-> None, bump |-> None, version_file |-> None, date |-> d] : d \in Opt(Dates)}

\* the calls of tool release()
ToolCalls == {[version |-> VersionStr(v), date |-> d] : v \in ExplicitVersions, d \in Opt(Dates)}

RawName(tag, ext) == [tag |-> tag, digest |-> <<"", "", <<>>>>, ext |-> ext]

\* the staging directory before the first operation: empty, or holding hand-written
\* files: a well-formed entry, an entry of an unknown type and a file that is no entry
RawEntry ==
    RawName("entry", "json") :> [kind |-> "obj", type |-> "Feature",
                                 description |-> "Add Y", prs |-> "null",
                                 pull_requests |-> <<>>]

InitStaged ==
    { <<>>,
      RawEntry,
      RawEntry
        @@ RawName("typo", "json") :> [kind |-> "obj", type |-> "misc",
                                       description |-> "Add X", prs |-> "absent",
                                       pull_requests |-> <<>>]
        @@ RawName("README", "md") :> [kind |-> "bad"] }

V101 == <<"1", ".", "0", ".", "1">>
V090 == <<"0", ".", "9", ".", "0">>

ReleasedBefore ==
    ReleaseFileName(V101) :>
         ReleaseWrite(V101, "2025-01-01",
                      <<[type |-> "OTHER", description |-> "Initial", pull_requests |-> <<>>]>>)
      @@ (V090 \o <<".">> \o MdExt) :> [kind |-> "md", text |-> "## 0.9.0"]

\* the releases directory and the version file before the first operation: a fresh
\* repository with a version file, or earlier releases (a structured and a legacy
\* one) with a version file that is malformed or missing
InitStores ==
    { [releases |-> <<>>, marker |-> Some(<<"1", ".", "0", ".", "0", "\n">>)],
      [releases |-> ReleasedBefore, marker |-> Some(<<"1", ".", "0">>)],
      [releases |-> ReleasedBefore, marker |-> None] }

IdleCut ==
    [pc |-> "idle", variant |-> "",
     args |-> [version |-> None, bump |-> None, version_file |-> None,
               release_date |-> None],
     version |-> None, verstr |-> <<>>, bump |-> None, date |-> None,
     todo |-> {}, entry |-> None, changes |-> <<>>,
     default_bump |-> "patch", resolved |-> <<>>, outcome |-> "", baseRead |-> FALSE,
     persisted |-> FALSE,
     pre |-> [staged |-> <<>>, releases |-> <<>>, relDir |-> FALSE, marker |-> None,
              changelog |-> None]]

\* a change as the history variable identifies it: its type and description
Key(change) == <<change.type, change.description>>
ChangeKeys == ChangeType \X {"Add X", "Add Y", "Initial"}

\* the change of a stored entry, or no key when the entry does not parse
KeyOf(parsed) == IF parsed.ok THEN Key(parsed.change) ELSE <<>>
KeyOfJson(data) == KeyOf(ChangeFromJson(data))

RECURSIVE Sum(_, _)
SumFrom(f, S, x) == f[x] + Sum(f, S \ {x})
Sum(f, S) == IF S = {} THEN 0 ELSE SumFrom(f, S, CHOOSE y \in S : TRUE)

JsonReleases(dir) == {n \in DOMAIN dir : dir[n].kind = "json"}

\* how many entries of the release file n are the change k
InFile(dir, n, k) == Len(SelectSeq(dir[n].changes, LAMBDA c : KeyOfJson(c) = k))

\* how many entries of the persisted release files are the change k
Occurrences(dir, k) ==
    Sum([n \in JsonReleases(dir) |-> InFile(dir, n, k)], JsonReleases(dir))

IdleAmend ==
    [pc |-> "idle", pr_number |-> "", review_comment |-> FALSE, token |-> FALSE,
     sha |-> FALSE, diff |-> <<>>, todo |-> <<>>, remote |-> 0, outcome |-> ""]

Init ==
    /\ staged \in InitStaged
    /\ \E store \in InitStores : releases = store.releases /\ marker = store.marker
    /\ relDir = (releases # <<>>)
    /\ changelog = None
    /\ printed = None
    /\ cut = [p \in Procs |-> IdleCut]
    /\ consumed = [k \in ChangeKeys |-> Occurrences(releases, k)]
    /\ am = IdleAmend
    /\ issueComments = <<>>
    /\ reviewComments = <<>>
    /\ nOps = 0
    /\ calc = NoCalc
    /\ gh = NoCall

NoCutRunning == \A p \in Procs : cut[p].pc = "idle"
Quiet == NoCutRunning /\ am.pc = "idle"

(***************************************************************************)
(* new_change / write_new_change: stage one change.                        *)
(***************************************************************************)
\* sha1 of the serialized change: a collision-free digest of its fields
Sha1(contents) == <<contents.type, contents.description, contents.pull_requests>>

\* re.sub(r"#\d+", linkify, text) on the texts the model stages
Linkify(text) == IF text = "#7" THEN "[#7](https://github.com/smithy-lang/smithy/issues/7)"
                 ELSE text

\* replace_issue_references
ReplaceIssueReferences(change) ==
    [change EXCEPT !.description = Linkify(@),
                   !.pull_requests = MapSeq(Linkify, @)]

\* a faulty variant of StagedFileName that names the file after the type alone
StagedFileNameByType(contents) ==
    [tag |-> contents.type, digest |-> <<"", "", <<>>>>, ext |-> "json"]

\* NEXT_RELEASE_DIR / f"{change.type}-{digest}.json"
StagedFileName(contents) ==
    [tag |-> contents.type, digest |-> Sha1(contents), ext |-> "json"]

\* write_new_change
Stage(in) ==
    /\ Quiet
    /\ nOps < MaxOps
    /\ \E contents \in {ChangeWrite(ReplaceIssueReferences(in))} :
          staged' = (StagedFileName(contents) :> contents) @@ staged
    /\ nOps' = nOps + 1
    /\ printed' = None
    /\ UNCHANGED <<calc, gh, relDir, releases, marker, changelog, cut, am, remoteVars, consumed>>

(***************************************************************************)
(* release(): smithy_changelog/release.py ("changelog") and                *)
(* tool/release.py ("tool"), one action per step of the function.          *)
(***************************************************************************)
Snapshot ==
    [staged |-> staged, releases |-> releases, relDir |-> relDir, marker |-> marker,
     changelog |-> changelog]

\* the call: arguments bound, `changes = []`, `default_bump = "patch"`, the glob started
CutStart(p, variant, version, verstr, bump, version_file, date) ==
    /\ cut[p].pc = "idle"
    /\ am.pc = "idle"
    /\ nOps < MaxOps
    /\ cut' = [cut EXCEPT ![p] =
                 [IdleCut EXCEPT !.pc = "loop", !.variant = variant,
                                 !.args = [version |-> version, bump |-> bump,
                                           version_file |-> version_file,
                                           release_date |-> date],
                                 !.version = version, !.verstr = verstr, !.bump = bump,
                                 !.date = IF variant = "tool" THEN Some(ReleaseDate(date))
                                          ELSE date,
                                 !.todo = GlobStaged(staged),
                                 !.outcome = "running", !.pre = Snapshot]]
    /\ nOps' = nOps + 1
    /\ printed' = None
    /\ UNCHANGED <<calc, gh, staged, relDir, releases, marker, changelog, consumed, am,
                   remoteVars>>

Raise(p, error) == [cut EXCEPT ![p].pc = "raised", ![p].outcome = error]

\* a faulty variant of DefaultBump that overlooks breaking changes
DefaultBumpFeatureOnly(variant, current, change) ==
    IF variant = "changelog" /\ change.type = "FEATURE" THEN "minor" ELSE current

\* the bump that one more staged change leaves as the default
DefaultBump(variant, current, change) ==
    IF variant = "changelog" /\ change.type \in {"FEATURE", "BREAK"} THEN "minor"
    ELSE current

\* the locals after one staged entry was read
Gathered(p, entry, change) ==
    [cut EXCEPT ![p].todo = @ \ {entry},
                ![p].changes = Append(@, change),
                ![p].default_bump = DefaultBump(cut[p].variant, @, change)]

\* one iteration of the loop over the staged entries: read, append, unlink
ReadEntry(p) ==
    /\ cut[p].pc = "loop"
    /\ \E entry \in cut[p].todo :
         \E read \in {ChangeFromJson(staged[entry])} :
            IF ~ read.ok
            THEN /\ cut' = Raise(p, "ParseError")
                 /\ UNCHANGED staged
            ELSE /\ cut' = Gathered(p, entry, read.change)
                 /\ staged' = Without(staged, entry)
    /\ UNCHANGED <<calc, gh, relDir, releases, marker, changelog, printed, consumed, am, remoteVars, nOps>>

\* a faulty variant of CheckStaged that creates the releases directory before it
\* looks at the gathered changes
CheckStagedMakedirsFirst(p) ==
    /\ cut[p].pc = "loop"
    /\ cut[p].todo = {}
    /\ relDir' = TRUE
    /\ cut' = IF cut[p].changes = <<>> THEN Raise(p, "NoStagedChanges")
              ELSE [cut EXCEPT
                      ![p].pc = IF cut[p].variant = "tool" THEN "write" ELSE "resolve",
                      ![p].resolved = IF cut[p].variant = "tool" THEN cut[p].verstr ELSE @]
    /\ UNCHANGED <<calc, gh, staged, releases, marker, changelog, printed, consumed, am, remoteVars, nOps>>

\* after the loop: `if not changes: raise ValueError`, then os.makedirs(RELEASES_DIR)
CheckStaged(p) ==
    /\ cut[p].pc = "loop"
    /\ cut[p].todo = {}
    /\ IF cut[p].changes = <<>>
       THEN /\ cut' = Raise(p, "NoStagedChanges")
            /\ UNCHANGED relDir
       ELSE /\ relDir' = TRUE
            /\ cut' = [cut EXCEPT
                         ![p].pc = IF cut[p].variant = "tool" THEN "write" ELSE "resolve",
                         ![p].resolved = IF cut[p].variant = "tool" THEN cut[p].verstr ELSE @]
    /\ UNCHANGED <<calc, gh, staged, releases, marker, changelog, printed, consumed, am, remoteVars, nOps>>

\* `bump = bump or default_bump`
ResolveBump(bump, default_bump) == IF IsNone(bump) THEN default_bump ELSE Get(bump)

\* a computed version, marked as having read the base
FromBase(computed) ==
    [ok |-> computed.ok, err |-> computed.err, v |-> computed.v, baseRead |-> TRUE]

\* a faulty variant of ResolveVersion that computes the version even when one is given
ResolveVersionAlwaysComputes(version, bump, version_file, markerFile, dir) ==
    FromBase(ComputeVersion(bump, version_file, markerFile, dir))

\* `version = version or _compute_version(bump, version_file)`
ResolveVersion(version, bump, version_file, markerFile, dir) ==
    IF ~ IsNone(version)
    THEN [ok |-> TRUE, err |-> "", v |-> Get(version), baseRead |-> FALSE]
    ELSE FromBase(ComputeVersion(bump, version_file, markerFile, dir))

\* the locals after the version was resolved, or the exception
Resolved(p, bump, r) ==
    IF r.ok
    THEN [cut EXCEPT ![p].pc = "write", ![p].bump = Some(bump),
                     ![p].version = Some(r.v),
                     ![p].resolved = VersionStr(r.v),
                     ![p].date = Some(ReleaseDate(@)),
                     ![p].baseRead = r.baseRead]
    ELSE [cut EXCEPT ![p].pc = "raised", ![p].outcome = r.err,
                     ![p].bump = Some(bump), ![p].baseRead = r.baseRead]

Resolve(p) ==
    /\ cut[p].pc = "resolve"
    /\ \E bump \in {ResolveBump(cut[p].bump, cut[p].default_bump)} :
          cut' = Resolved(p, bump, ResolveVersion(cut[p].version, bump, cut[p].args.version_file,
                                                  marker, releases))
    /\ UNCHANGED <<calc, gh, staged, relDir, releases, marker, changelog, printed, consumed, am, remoteVars, nOps>>

\* a faulty variant of WriteText that leaves no other file in the directory
WriteTextAlone(dir, name, content) == name :> content

\* Path.write_text: the file is created, or replaced as a whole
WriteText(dir, name, content) == (name :> content) @@ dir

\* the release file of this cut
ReleaseFile(p) == ReleaseFileName(cut[p].resolved)

\* result.write(release_file): the whole file is replaced, or the write fails
WriteRelease(p) ==
    /\ cut[p].pc = "write"
    /\ \/ /\ releases' = WriteText(releases, ReleaseFile(p),
                                    ReleaseWrite(cut[p].resolved, Get(cut[p].date),
                                                 cut[p].changes))
          /\ cut' = [cut EXCEPT ![p].persisted = TRUE,
                                ![p].pc = IF cut[p].variant = "tool" THEN "return" ELSE "emit",
                                ![p].outcome = IF cut[p].variant = "tool" THEN "ok" ELSE @]
          /\ consumed' = [k \in ChangeKeys |->
                             consumed[k] + Len(SelectSeq(cut[p].changes,
                                                         LAMBDA c : Key(c) = k))]
       \/ /\ cut' = Raise(p, "OSError")
          /\ UNCHANGED <<releases, consumed>>
    /\ UNCHANGED <<calc, gh, staged, relDir, marker, changelog, printed, am,
                   remoteVars, nOps>>

(***************************************************************************)
(* Rendering.                                                              *)
(***************************************************************************)
\* dict(sorted(result.items())): the types that occur, by ChangeType order
SortedTypes(present) ==
    CHOOSE s \in SortedOrders(LAMBDA a, b : TypeOrder(a) < TypeOrder(b), present) : TRUE

\* the changes of each type, in the order of the release
Grouped(types, changes) ==
    [i \in 1..Len(types) |->
        [type |-> types[i], changes |-> SelectSeq(changes, LAMBDA c : c.type = types[i])]]

\* Release.change_map
ChangeMap(changes) ==
    Grouped(SortedTypes({changes[i].type : i \in 1..Len(changes)}), changes)

\* the Release built from a parsed version and parsed changes
ReleaseOf(version, date, parsed) ==
    [ok |-> version.ok /\ \A i \in 1..Len(parsed) : parsed[i].ok,
     version |-> version.v,
     date |-> date,
     changes |-> [i \in 1..Len(parsed) |-> parsed[i].change]]

\* Release.from_json of smithy_changelog: the version text is parsed
ReleaseFromJson(data) ==
    ReleaseOf(VersionFromStr(data.version), data.date, MapSeq(ChangeFromJson, data.changes))

\* the sort key of get_releases, per file
RenderPathVersions(files) == [n \in files |-> RenderVersionFromPath(n)]

\* sorted(..., reverse=True) is stable: files of one version keep the order of the
\* list, where the *.json files precede the *.md files
ReleaseOrdersBy(files, pv) ==
    SortedOrders(LAMBDA a, b : \/ VersionLt(pv[b].v, pv[a].v)
                               \/ /\ pv[a].v = pv[b].v
                                  /\ EndsWith(a, JsonExt) /\ EndsWith(b, MdExt),
                 files)

\* smithy_changelog get_releases: the orders in which it can return the files
ReleaseOrders(dir) == ReleaseOrdersBy(ReleaseFiles(dir), RenderPathVersions(ReleaseFiles(dir)))

RenderedRelease(versionText, date, changes) ==
    [kind |-> "release", version |-> versionText, date |-> date,
     sections |-> ChangeMap(changes)]

\* what render() appends for a release read from a *.json file
RenderedJson(r) ==
    [ok |-> r.ok, out |-> RenderedRelease(VersionStr(r.version), r.date, r.changes)]

\* what render() appends for one file of the releases directory
RenderedFile(dir, name) ==
    IF EndsWith(name, MdExt)
    THEN [ok |-> TRUE, out |-> [kind |-> "text", text |-> dir[name].text]]
    ELSE RenderedJson(ReleaseFromJson(dir[name]))

\* the printed text, and the value the function returns
Rendering(namesOk, entries) ==
    [ok |-> namesOk /\ \A i \in 1..Len(entries) : entries[i].ok,
     out |-> [i \in 1..Len(entries) |-> entries[i].out],
     ret |-> None]

\* smithy_changelog render(): the text it prints for one order of the files; it
\* returns nothing
RenderChangelog(dir, order) ==
    Rendering(\A n \in ReleaseFiles(dir) : RenderVersionFromPath(n).ok,
              [i \in 1..Len(order) |-> RenderedFile(dir, order[i])])

\* `<` on the ISO dates of the model, which is their calendar order
IsoDates == <<"2025-01-01", "2025-07-29", "2026-11-04">>
DateLt(a, b) ==
    \E i, j \in 1..Len(IsoDates) : IsoDates[i] = a /\ IsoDates[j] = b /\ i < j

\* tool get_releases: the *.json files sorted by Release.__lt__, that is by date
ToolReleaseOrders(dir) ==
    SortedOrders(LAMBDA a, b : DateLt(dir[a].date, dir[b].date),
                 {n \in DOMAIN dir : EndsWith(n, JsonExt)})

\* tool Release.from_json: the version stays a text
ToolReleaseOf(versionText, date, parsed) ==
    [ok |-> \A i \in 1..Len(parsed) : parsed[i].ok,
     out |-> RenderedRelease(versionText, date, [i \in 1..Len(parsed) |-> parsed[i].change])]

ToolReleaseFromJson(data) ==
    ToolReleaseOf(data.version, data.date, MapSeq(ChangeFromJson, data.changes))

\* tool render(): the text it prints for one order of the files
RenderTool(dir, order) ==
    Rendering(TRUE, [i \in 1..Len(order) |-> ToolReleaseFromJson(dir[order[i]])])

\* the render command of smithy_changelog: reads the releases and prints
Render ==
    /\ Quiet
    /\ \E order \in ReleaseOrders(releases) :
         \E r \in {RenderChangelog(releases, order)} :
            /\ r.ok
            /\ printed' = Some(r.out)
    /\ UNCHANGED <<calc, gh, staged, relDir, releases, marker, changelog, cut, consumed, am, remoteVars, nOps>>

\* the render command of tool: reads the releases and prints
ToolRender ==
    /\ Quiet
    /\ \E order \in ToolReleaseOrders(releases) :
         \E r \in {RenderTool(releases, order)} :
            /\ r.ok
            /\ printed' = Some(r.out)
    /\ UNCHANGED <<calc, gh, staged, relDir, releases, marker, changelog, cut, consumed, am, remoteVars, nOps>>

\* the locals after the tail of release() for what render() printed and returned:
\* write_text accepts a str only, any other value raises TypeError
Emitted(p, r) ==
    IF ~ r.ok THEN Raise(p, "InvalidVersion")
    ELSE IF IsNone(r.ret) THEN Raise(p, "TypeError")
    ELSE [cut EXCEPT ![p].pc = "return", ![p].outcome = "ok"]

\* the tail of smithy_changelog release(): `rendered = render(title)`,
\* `changelog_file.write_text(rendered)`, then the version file
EmitChangelog(p) ==
    /\ cut[p].pc = "emit"
    /\ \E order \in ReleaseOrders(releases) :
         \E r \in {RenderChangelog(releases, order)} :
            /\ printed' = IF r.ok THEN Some(r.out) ELSE printed
            /\ changelog' = IF r.ok /\ ~ IsNone(r.ret) THEN r.ret ELSE changelog
            /\ marker' = IF r.ok /\ ~ IsNone(r.ret) /\ ~ IsNone(cut[p].args.version_file)
                         THEN Some(cut[p].resolved) ELSE marker
            /\ cut' = Emitted(p, r)
    /\ UNCHANGED <<calc, gh, staged, relDir, releases, consumed, am, remoteVars, nOps>>

\* the invocation ends: release() has returned or raised
Exit(p) ==
    /\ cut[p].pc \in {"return", "raised"}
    /\ cut' = [cut EXCEPT ![p] = IdleCut]
    /\ UNCHANGED <<calc, gh, staged, relDir, releases, marker, changelog, printed, consumed, am, remoteVars, nOps>>

\* the process is terminated between two steps
Crash(p) ==
    /\ cut[p].pc \in {"loop", "resolve", "write", "emit"}
    /\ cut' = [cut EXCEPT ![p] = IdleCut]
    /\ UNCHANGED <<calc, gh, staged, relDir, releases, marker, changelog, printed, consumed, am, remoteVars, nOps>>

(***************************************************************************)
(* The GitHub client as amend() uses it, and amend().                      *)
(***************************************************************************)
PrNumbers == {"9"}

\* GITHUB_TOKEN and TARGET_SHA are set, or TARGET_SHA is missing
AmendEnvs == {[token |-> TRUE, sha |-> TRUE], [token |-> TRUE, sha |-> FALSE]}

\* f"[#{pr_number}]({GITHUB_URL}/{repository}/pull/{pr_number})"
PrRef(pr_number) ==
    IF pr_number = "9" THEN "[#9](https://github.com/smithy-lang/smithy/pull/9)"
    ELSE "[#?](https://github.com/smithy-lang/smithy/pull/?)"

\* the reminder that amend() posts when it finds no staged entry
Reminder(pr_number) == [kind |-> "reminder", pr |-> pr_number, suggestion |-> None]

\* the suggestion that amend() posts for an entry without a pull request
Suggestion(change) ==
    [kind |-> "suggestion", pr |-> "", suggestion |-> Some(ChangeWrite(change))]

\* a faulty variant of LineCount that takes the file to end at its first line
LineCountOne(data) == 1

\* len(file.read_text().splitlines()) of a file as Change.write lays it out
LineCount(data) ==
    IF data.kind # "obj" THEN 1
    ELSE IF data.pull_requests = <<>> THEN 5
    ELSE 6 + Len(data.pull_requests)

\* post_comment with allow_duplicate=False: the comments after the call
PostComment(existing, comment, token) ==
    IF ~ token THEN [ok |-> FALSE, err |-> "ConfigError", comments |-> existing]
    ELSE IF \E i \in 1..Len(existing) : existing[i] = comment
    THEN [ok |-> TRUE, err |-> "", comments |-> existing]
    ELSE [ok |-> TRUE, err |-> "", comments |-> Append(existing, comment)]

\* post_review_comment with allow_duplicate=False: the review comments after the call
PostReviewComment(existing, comment, file, start_line, end_line, token, sha) ==
    IF ~ sha \/ ~ token THEN [ok |-> FALSE, err |-> "ConfigError", comments |-> existing]
    ELSE IF \E i \in 1..Len(existing) :
                existing[i].path = file /\ existing[i].body = comment
    THEN [ok |-> TRUE, err |-> "", comments |-> existing]
    ELSE IF IsNone(start_line) /\ ~ IsNone(end_line)
    THEN [ok |-> FALSE, err |-> "ValueError", comments |-> existing]
    ELSE [ok |-> TRUE, err |-> "",
          comments |-> Append(existing,
                              [path |-> file, body |-> comment,
                               start_line |-> IF IsNone(end_line) THEN None ELSE start_line,
                               line |-> IF IsNone(end_line) THEN start_line ELSE end_line])]

\* the invocation once the arguments are bound and the new changes are listed
AmendStarted(pr_number, review_comment, token, sha, diff) ==
    [IdleAmend EXCEPT !.pc = "loop", !.pr_number = pr_number,
                      !.review_comment = review_comment,
                      !.token = token, !.sha = sha, !.diff = diff, !.todo = diff,
                      !.outcome = "running"]

AmendRaised(started, err) == [started EXCEPT !.pc = "raised", !.outcome = err]

\* a faulty variant of NeedsReminder that does not look at the mode
NeedsReminderInEitherMode(changes, review_comment) == changes = <<>>

\* `if not changes and review_comment:`
NeedsReminder(changes, review_comment) == changes = <<>> /\ review_comment

\* amend() up to its loop: the diff against the base branch lists `diff`, every listed
\* entry is read, and the reminder is posted when there is none
AmendStart(pr_number, review_comment, token, sha, diff) ==
    /\ Quiet
    /\ nOps < MaxOps
    /\ nOps' = nOps + 1
    /\ printed' = None
    /\ \E started \in {AmendStarted(pr_number, review_comment, token, sha, diff)} :
          IF \E i \in 1..Len(diff) : ~ ChangeFromJson(staged[diff[i]]).ok
          THEN /\ am' = AmendRaised(started, "ParseError")
               /\ UNCHANGED issueComments
          ELSE IF NeedsReminder(diff, review_comment)
          THEN \E posted \in {PostComment(issueComments, Reminder(pr_number), token)},
                  called \in {[started EXCEPT !.remote = @ + 1]} :
                  /\ issueComments' = posted.comments
                  /\ am' = IF posted.ok THEN called ELSE AmendRaised(called, posted.err)
          ELSE /\ am' = started
               /\ UNCHANGED issueComments
    /\ UNCHANGED <<calc, gh, staged, relDir, releases, marker, changelog, cut, reviewComments,
                   consumed>>

\* a faulty variant of Amended that stores the bare number
AmendedBareNumber(change, pr_number) == [change EXCEPT !.pull_requests = <<pr_number>>]

\* the entry with the pull request of this run as its only pull request
Amended(change, pr_number) == [change EXCEPT !.pull_requests = <<PrRef(pr_number)>>]

\* a faulty variant of HasReference that takes every entry as unreferenced
HasReferenceNever(change) == FALSE

\* `if not change.pull_requests:` negated: the entry already names a pull request
HasReference(change) == change.pull_requests # <<>>

\* one iteration of amend()'s loop over the new changes
AmendChange ==
    /\ am.pc = "loop"
    /\ am.todo # <<>>
    /\ \E file \in {Head(am.todo)}, rest \in {[am EXCEPT !.todo = Tail(@)]} :
        \E change \in {ChangeFromJson(staged[file]).change} :
          IF HasReference(change)
          THEN /\ am' = rest
               /\ UNCHANGED <<staged, reviewComments>>
          ELSE IF am.review_comment
          THEN \E posted \in {PostReviewComment(reviewComments,
                                                Suggestion(Amended(change, am.pr_number)),
                                                file, Some(1),
                                                Some(LineCount(staged[file])),
                                                am.token, am.sha)},
                  called \in {[rest EXCEPT !.remote = @ + 1]} :
                  /\ reviewComments' = posted.comments
                  /\ am' = IF posted.ok THEN called ELSE AmendRaised(called, posted.err)
                  /\ UNCHANGED staged
          ELSE /\ staged' = [staged EXCEPT
                               ![file] = ChangeWrite(Amended(change, am.pr_number))]
               /\ am' = rest
               /\ UNCHANGED reviewComments
    /\ UNCHANGED <<calc, gh, relDir, releases, marker, changelog, printed, cut, issueComments,
                   consumed, nOps>>

\* amend() returns or has raised
AmendExit ==
    /\ \/ am.pc = "loop" /\ am.todo = <<>>
       \/ am.pc = "raised"
    /\ am' = IdleAmend
    /\ UNCHANGED <<calc, gh, staged, relDir, releases, marker, changelog, printed, cut, remoteVars,
                   consumed, nOps>>

\* the lists of new changes that `git diff --name-only` can give: any subset of the
\* staged entries, in any order
DiffLists == UNION {SortedOrders(LAMBDA a, b : FALSE, S) : S \in SUBSET GlobStaged(staged)}

Amend ==
    \/ \E pr_number \in PrNumbers, review_comment \in BOOLEAN, env \in AmendEnvs,
          diff \in DiffLists :
            AmendStart(pr_number, review_comment, env.token, env.sha, diff)
    \/ AmendChange
    \/ AmendExit

Cut(p) ==
    \/ \E call \in ChangelogCalls :
            CutStart(p, "changelog", call.version, <<>>, call.bump, call.version_file,
                     call.date)
    \/ \E call \in ToolCalls :
            CutStart(p, "tool", None, call.version, None, None, call.date)
    \/ ReadEntry(p)
    \/ CheckStaged(p)
    \/ Resolve(p)
    \/ WriteRelease(p)
    \/ EmitChangelog(p)
    \/ Exit(p)
    \/ Crash(p)

Next ==
    \/ \E in \in StageInputs : Stage(in)
    \/ Render
    \/ ToolRender
    \/ \E p \in Procs : Cut(p)
    \/ Amend

Spec == Init /\ [][Next]_vars

\* staging and amend alone: the part of the workflow that the amend claims are about
AmendNext ==
    \/ \E in \in StageInputs : Stage(in)
    \/ Amend

AmendSpec == Init /\ [][AmendNext]_vars

(***************************************************************************)
(* Value-level computations: the methods of Version and Release.change_map *)
(* applied to inputs drawn from bounded sets.                              *)
(***************************************************************************)
MaxComponent == 11
MaxTextLen == 7
MaxStemLen == 5
MaxChanges == 3

VersionInputs == {Version(a, b, c) : a, b, c \in 0..MaxComponent}

\* the characters of the texts handed to the parsers: a digit, the separator, a
\* letter and a sign
TextChars == {"1", ".", "x", "-"}

RECURSIVE TextsOfLen(_)
TextsOfLen(n) ==
    IF n = 0 THEN {<<>>}
    ELSE {Append(t, c) : t \in TextsOfLen(n - 1), c \in TextChars}

TextInputs == UNION {TextsOfLen(n) : n \in 0..MaxTextLen}

\* file names: a text, alone or followed by an extension
NameEndings == {<<>>, <<".">> \o JsonExt, <<".", "1", ".">> \o MdExt}
NameInputs == {t \o e : t \in UNION {TextsOfLen(n) : n \in 0..MaxStemLen}, e \in NameEndings}

ChangeInputs ==
    {[type |-> t, description |-> d, pull_requests |-> <<>>] :
        t \in ChangeType, d \in {"Add X", "Add Y"}}

RECURSIVE ChangeLists(_)
ChangeLists(n) ==
    IF n = 0 THEN {<<>>}
    ELSE {Append(l, c) : l \in ChangeLists(n - 1), c \in ChangeInputs}

ChangeListInputs == UNION {ChangeLists(n) : n \in 0..MaxChanges}

\* the changes handed to new_change, with and without an issue reference
StagingInputs ==
    {[type |-> t, description |-> d, pull_requests |-> prs] :
        t \in {"FEATURE", "BUGFIX"}, d \in {"Add X", "Add Y"}, prs \in {<<>>, <<"#7">>}}

RECURSIVE StagingLists(_)
StagingLists(n) ==
    IF n = 0 THEN {<<>>}
    ELSE {Append(l, c) : l \in StagingLists(n - 1), c \in StagingInputs}

StagingListInputs == UNION {StagingLists(n) : n \in 0..MaxChanges}

\* descriptions as a caller or a file can give them: empty, blank, and a text
DescriptionInputs == {"", " ", " \n", "Add X", " Add X "}

\* the decoded content of a change file, or the arguments of new_change
EntryInputs ==
    {[kind |-> "obj", type |-> t, description |-> d, prs |-> prs, pull_requests |-> <<>>] :
        t \in {"feature", "Feature", "misc"}, d \in DescriptionInputs,
        prs \in {"absent", "null", "list"}}

Drawn(kind, in) == [NoCalc EXCEPT !.kind = kind, !.in = in]

\* nothing is staged or released and no invocation runs
NoRepository ==
    /\ staged = <<>>
    /\ releases = <<>>
    /\ relDir = FALSE
    /\ marker = None
    /\ changelog = None
    /\ printed = None
    /\ cut = [p \in Procs |-> IdleCut]
    /\ consumed = [k \in ChangeKeys |-> 0]
    /\ am = IdleAmend
    /\ issueComments = <<>>
    /\ reviewComments = <<>>
    /\ nOps = 0

ValueInit ==
    /\ calc \in {Drawn("version", v) : v \in VersionInputs}
                  \cup {Drawn("text", t) : t \in TextInputs}
                  \cup {Drawn("name", n) : n \in NameInputs}
                  \cup {Drawn("changes", l) : l \in ChangeListInputs}
                  \cup {Drawn("staging", l) : l \in StagingListInputs}
                  \cup {Drawn("entry", e) : e \in EntryInputs}
    /\ gh = NoCall
    /\ NoRepository

Applied(fn, arg, out) == [calc EXCEPT !.fn = fn, !.arg = arg, !.out = out]

\* version.bump(bump)
ApplyBump(bump) ==
    /\ calc.kind = "version" /\ calc.fn = ""
    /\ calc' = Applied("bump", bump, VersionBump(calc.in, bump))
    /\ UNCHANGED <<repoVars, gh>>

\* str(version)
ApplyStr ==
    /\ calc.kind = "version" /\ calc.fn = ""
    /\ calc' = Applied("str", "", VersionStr(calc.in))
    /\ UNCHANGED <<repoVars, gh>>

\* Version.from_str(str(version))
ApplyFromStrOfStr ==
    /\ calc.kind = "version" /\ calc.fn = "str"
    /\ calc' = Applied("from_str", "", VersionFromStr(calc.out))
    /\ UNCHANGED <<repoVars, gh>>

\* Version.from_str(text)
ApplyFromStr ==
    /\ calc.kind = "text" /\ calc.fn = ""
    /\ calc' = Applied("from_str", "", VersionFromStr(calc.in))
    /\ UNCHANGED <<repoVars, gh>>

\* Version.from_path(Path(name))
ApplyFromPath ==
    /\ calc.kind = "name" /\ calc.fn = ""
    /\ calc' = Applied("from_path", "", VersionFromPath(calc.in))
    /\ UNCHANGED <<repoVars, gh>>

\* Release(version, changes).change_map()
ApplyChangeMap ==
    /\ calc.kind = "changes" /\ calc.fn = ""
    /\ calc' = Applied("change_map", "", ChangeMap(calc.in))
    /\ UNCHANGED <<repoVars, gh>>

\* write_new_change(change): the staging directory with the file of the change
WriteNewChange(dir, change) ==
    WriteText(dir, StagedFileName(ChangeWrite(ReplaceIssueReferences(change))),
              ChangeWrite(ReplaceIssueReferences(change)))

\* the staging directory after write_new_change for each change of a list in turn
RECURSIVE StageAll(_, _)
StageAll(dir, changes) ==
    IF changes = <<>> THEN dir
    ELSE StageAll(WriteNewChange(dir, Head(changes)), Tail(changes))

\* new_change for each change of the list, into an empty staging directory
ApplyStage ==
    /\ calc.kind = "staging" /\ calc.fn = ""
    /\ calc' = Applied("stage", "", StageAll(<<>>, calc.in))
    /\ UNCHANGED <<repoVars, gh>>

\* Change.from_json(data)
ApplyFromJson ==
    /\ calc.kind = "entry" /\ calc.fn = ""
    /\ calc' = Applied("from_json", "", ChangeFromJson(calc.in))
    /\ UNCHANGED <<repoVars, gh>>

\* new_change(change_type, description) with both arguments given, into an empty
\* staging directory; the command line admits the five type names only
ApplyNewChange ==
    /\ calc.kind = "entry" /\ calc.fn = ""
    /\ Upper(calc.in.type) \in ChangeType
    /\ calc' = Applied("new_change", "",
                       WriteNewChange(<<>>, [type |-> Upper(calc.in.type),
                                             description |-> calc.in.description,
                                             pull_requests |-> <<>>]))
    /\ UNCHANGED <<repoVars, gh>>

ValueNext ==
    \/ \E bump \in Bumps : ApplyBump(bump)
    \/ ApplyStr
    \/ ApplyFromStrOfStr
    \/ ApplyFromStr
    \/ ApplyFromPath
    \/ ApplyChangeMap
    \/ ApplyStage
    \/ ApplyFromJson
    \/ ApplyNewChange

ValueSpec == ValueInit /\ [][ValueNext]_vars

(***************************************************************************)
(* The GitHub client (tool/github.py) request by request: _request,        *)
(* _paginate, the two listings and the two posting operations.             *)
(***************************************************************************)
MaxRemote == 3
MaxCalls == 2
\* per_page of the listing urls, scaled down
PerPage == 2

Bodies == {"reminder", "suggestion"}
Paths == {"a.json", "b.json"}
ClientOps == {"get_comments", "get_review_comments", "post_comment", "post_review_comment"}

\* a review comment as the remote lists it
ReviewComment(path, body, start_line, line) ==
    [path |-> path, body |-> body, start_line |-> start_line, line |-> line]

RECURSIVE ListsOver(_, _)
ListsOver(S, n) ==
    IF n = 0 THEN {<<>>}
    ELSE ListsOver(S, n - 1)
           \cup {Append(l, x) : l \in {m \in ListsOver(S, n - 1) : Len(m) = n - 1}, x \in S}

\* what the pull request holds before the first call: issue comments or review
\* comments
InitRemotes ==
    {[issue |-> l, review |-> <<>>] : l \in ListsOver(Bodies, MaxRemote)}
    \cup
    {[issue |-> <<>>, review |-> l] :
        l \in ListsOver({ReviewComment(p, b, None, Some(1)) : p \in Paths, b \in Bodies},
                        MaxRemote)}

\* the responses of the remote to a request: 2xx with the page asked for, 2xx with
\* a body that is no list, an error status with a JSON body, an error status with a
\* body that is no JSON
Responses == {"ok", "object", "error", "error_text"}

\* a faulty variant of HasNextPage: the link header is never followed
HasNextPageNever(list, n) == FALSE

\* a faulty variant of PageOf: the remote answers every request with the first page
PageOfFirst(list, n) == SubSeq(list, 1, IF PerPage < Len(list) THEN PerPage ELSE Len(list))

\* the n-th page of a listing and whether its link header names a next page
PageOf(list, n) ==
    SubSeq(list, (n - 1) * PerPage + 1,
           IF n * PerPage < Len(list) THEN n * PerPage ELSE Len(list))
HasNextPage(list, n) == n * PerPage < Len(list)

IsReviewOp(op) == op \in {"get_review_comments", "post_review_comment"}
IsPostOp(op) == op \in {"post_comment", "post_review_comment"}

\* the listing the operation reads
Listed(op) == IF IsReviewOp(op) THEN reviewComments ELSE issueComments

\* a faulty variant of IsDuplicate that compares the body only
IsDuplicateByBody(g, existing) ==
    IF g.op = "post_review_comment" THEN existing.body = g.body
    ELSE g.op = "post_comment" /\ existing = g.body

\* the test on an existing comment in the duplicate scans
IsDuplicate(g, existing) ==
    IF g.op = "post_review_comment"
    THEN existing.path = g.file /\ existing.body = g.body
    ELSE g.op = "post_comment" /\ existing = g.body

HoldsDuplicate(g, comments) == \E i \in 1..Len(comments) : IsDuplicate(g, comments[i])

\* raise
GhRaised(g, err) == [g EXCEPT !.pc = "raised", !.err = err]

\* a faulty variant of GhEntered that does not look at TARGET_SHA
GhEnteredWithoutSha(g) ==
    IF IsPostOp(g.op) /\ g.allow_duplicate THEN [g EXCEPT !.pc = "post"]
    ELSE [g EXCEPT !.pc = "list"]

\* the call from its entry to its first request
GhEntered(g) ==
    IF g.op = "post_review_comment" /\ ~ g.sha THEN GhRaised(g, "TARGET_SHA")
    ELSE IF IsPostOp(g.op) /\ g.allow_duplicate THEN [g EXCEPT !.pc = "post"]
    ELSE [g EXCEPT !.pc = "list"]

\* the frame of a call: nothing requested yet
GhFrame(g, op, body, file, start_line, end_line, allow_duplicate) ==
    [g EXCEPT !.op = op, !.body = body, !.file = file, !.start_line = start_line,
              !.end_line = end_line, !.allow_duplicate = allow_duplicate,
              !.page = 1, !.gets = 0, !.posts = 0, !.sleeps = 0, !.created = 0,
              !.status = "", !.err = "", !.calls = @ + 1, !.seen = <<>>,
              !.dup = HoldsDuplicate([op |-> op, body |-> body, file |-> file],
                                     Listed(op))]

\* a call of one of the four operations
GhCall(op, body, file, start_line, end_line, allow_duplicate) ==
    /\ gh.pc = "none"
    /\ gh' = GhEntered(GhFrame(gh, op, body, file, start_line, end_line, allow_duplicate))
    /\ UNCHANGED <<repoVars, calc>>

\* the comments of a page that the duplicate scan takes: up to the first duplicate
UpToDuplicate(g, page) ==
    SubSeq(page, 1, CHOOSE i \in 1..Len(page) :
                        /\ IsDuplicate(g, page[i])
                        /\ \A j \in 1..(i - 1) : ~ IsDuplicate(g, page[j]))

\* a faulty variant of GhPageRead: the delay is taken as soon as a page names a next
\* page, also when the consumer stops in that page
GhPageReadEagerDelay(g, page, more) ==
    IF HoldsDuplicate(g, page)
    THEN [g EXCEPT !.pc = "returned", !.seen = @ \o UpToDuplicate(g, page),
                   !.sleeps = IF more THEN @ + 1 ELSE @]
    ELSE IF more THEN [g EXCEPT !.page = @ + 1, !.sleeps = @ + 1, !.seen = @ \o page]
    ELSE IF IsPostOp(g.op) THEN [g EXCEPT !.pc = "post", !.seen = @ \o page]
    ELSE [g EXCEPT !.pc = "returned", !.seen = @ \o page]

\* the consumer of a page that the remote answered with status 2xx: the comments of
\* the page are yielded in turn; the generator is resumed, and looks at the link
\* header, only when the consumer has taken them all
GhPageRead(g, page, more) ==
    IF HoldsDuplicate(g, page)
    THEN [g EXCEPT !.pc = "returned", !.seen = @ \o UpToDuplicate(g, page)]
    ELSE IF more THEN [g EXCEPT !.page = @ + 1, !.sleeps = @ + 1, !.seen = @ \o page]
    ELSE IF IsPostOp(g.op) THEN [g EXCEPT !.pc = "post", !.seen = @ \o page]
    ELSE [g EXCEPT !.pc = "returned", !.seen = @ \o page]

\* _request as far as the response: the request is sent once, HTTPError becomes
\* GitHubAPIError, whose constructor decodes the error body as JSON
GhResponded(g, resp) ==
    IF resp = "error" THEN GhRaised([g EXCEPT !.status = "error"], "GitHubAPIError")
    ELSE IF resp = "error_text"
    THEN GhRaised([g EXCEPT !.status = "error"], "JSONDecodeError")
    ELSE [g EXCEPT !.status = "2xx"]

\* one turn of _paginate under get_comments / get_review_comments and the loop that
\* consumes the page
GhList ==
    /\ gh.pc = "list"
    /\ \/ /\ ~ gh.token
          /\ gh' = GhRaised(gh, "GITHUB_TOKEN")
       \/ /\ gh.token
          /\ \E resp \in Responses :
               \E g \in {GhResponded([gh EXCEPT !.gets = @ + 1], resp)} :
                  gh' = IF resp = "ok"
                        THEN GhPageRead(g, PageOf(Listed(gh.op), gh.page),
                                        HasNextPage(Listed(gh.op), gh.page))
                        ELSE IF resp = "object" THEN GhRaised(g, "ExpectedList")
                        ELSE g
    /\ UNCHANGED <<repoVars, calc>>

\* the comment that the remote stores for the request body
GhCreated(g) ==
    IF g.op = "post_comment" THEN g.body
    ELSE ReviewComment(g.file, g.body,
                       IF IsNone(g.end_line) THEN None ELSE g.start_line,
                       IF IsNone(g.end_line) THEN g.start_line ELSE g.end_line)

\* the tail of post_comment / post_review_comment: the anchor is checked, then the
\* creation is requested
GhPost ==
    /\ gh.pc = "post"
    /\ \/ /\ gh.op = "post_review_comment" /\ IsNone(gh.start_line) /\ ~ IsNone(gh.end_line)
          /\ gh' = GhRaised(gh, "end_line")
          /\ UNCHANGED remoteVars
       \/ /\ ~ (gh.op = "post_review_comment" /\ IsNone(gh.start_line) /\ ~ IsNone(gh.end_line))
          /\ ~ gh.token
          /\ gh' = GhRaised(gh, "GITHUB_TOKEN")
          /\ UNCHANGED remoteVars
       \/ /\ ~ (gh.op = "post_review_comment" /\ IsNone(gh.start_line) /\ ~ IsNone(gh.end_line))
          /\ gh.token
          /\ \E resp \in Responses \ {"object"} :
               \E g \in {GhResponded([gh EXCEPT !.posts = @ + 1], resp)} :
                  IF resp = "ok"
                  THEN /\ gh' = [g EXCEPT !.pc = "returned", !.created = @ + 1]
                       /\ issueComments' = IF gh.op = "post_comment"
                                           THEN Append(issueComments, GhCreated(gh))
                                           ELSE issueComments
                       /\ reviewComments' = IF gh.op = "post_review_comment"
                                            THEN Append(reviewComments, GhCreated(gh))
                                            ELSE reviewComments
                  ELSE gh' = g /\ UNCHANGED remoteVars
    /\ UNCHANGED <<staged, relDir, releases, marker, changelog, printed, cut, am, consumed,
                   nOps, calc>>

\* what a later call keeps of the call before it
GhSummary(g) ==
    [pc |-> g.pc, created |-> g.created, dup |-> g.dup, allow_duplicate |-> g.allow_duplicate]

\* a re-run: the call that ended is made again with the same arguments
GhRetry ==
    /\ gh.pc \in {"returned", "raised"}
    /\ gh.calls < MaxCalls
    /\ gh' = GhEntered(GhFrame([gh EXCEPT !.before = GhSummary(gh)], gh.op, gh.body, gh.file,
                               gh.start_line, gh.end_line, gh.allow_duplicate))
    /\ UNCHANGED <<repoVars, calc>>

RemoteInit ==
    /\ \E token, sha \in BOOLEAN : gh = [NoCall EXCEPT !.token = token, !.sha = sha]
    /\ \E remote \in InitRemotes :
          issueComments = remote.issue /\ reviewComments = remote.review
    /\ calc = NoCalc
    /\ staged = <<>>
    /\ releases = <<>>
    /\ relDir = FALSE
    /\ marker = None
    /\ changelog = None
    /\ printed = None
    /\ cut = [p \in Procs |-> IdleCut]
    /\ consumed = [k \in ChangeKeys |-> 0]
    /\ am = IdleAmend
    /\ nOps = 0

RemoteNext ==
    \/ \E op \in {"get_comments", "get_review_comments"} :
            GhCall(op, "", "", None, None, FALSE)
    \/ \E body \in Bodies, allow_duplicate \in BOOLEAN :
            GhCall("post_comment", body, "", None, None, allow_duplicate)
    \/ \E body \in Bodies, file \in Paths, start_line \in Opt({1}), end_line \in Opt({5}),
          allow_duplicate \in BOOLEAN :
            GhCall("post_review_comment", body, file, start_line, end_line, allow_duplicate)
    \/ GhList
    \/ GhPost
    \/ GhRetry

RemoteSpec == RemoteInit /\ [][RemoteNext]_vars

\* the operations run to their end: a request is answered, time.sleep(60) returns,
\* and the loop that consumes a page goes on
RemoteFairSpec == RemoteSpec /\ WF_vars(GhList) /\ WF_vars(GhPost)

(***************************************************************************)
(* Two invocations of release() at the same time on one repository. The    *)
(* gather loop is taken statement by statement: Change.read(entry) and     *)
(* entry.unlink() are steps of their own, and either fails when the other  *)
(* invocation has removed the file.                                        *)
(***************************************************************************)
RaceProcs == {1, 2}

\* the staging directory before the invocations: one or two staged changes
RaceStaged ==
    {StageAll(<<>>, <<a>>) : a \in StageInputs}
      \cup {StageAll(<<>>, <<a, b>>) : a, b \in StageInputs}

RaceInit ==
    /\ staged \in RaceStaged
    /\ \E store \in InitStores : releases = store.releases /\ marker = store.marker
    /\ relDir = (releases # <<>>)
    /\ changelog = None
    /\ printed = None
    /\ cut = [p \in RaceProcs |-> IdleCut]
    /\ consumed = [k \in ChangeKeys |-> Occurrences(releases, k)]
    /\ am = IdleAmend
    /\ issueComments = <<>>
    /\ reviewComments = <<>>
    /\ nOps = 0
    /\ calc = NoCalc
    /\ gh = NoCall

\* `change = Change.read(entry)` up to `changes.append(change)` for the next entry of
\* the listing: open() fails when the file is gone
RaceRead(p) ==
    /\ cut[p].pc = "loop"
    /\ \E entry \in cut[p].todo :
          IF entry \notin DOMAIN staged THEN cut' = Raise(p, "FileNotFoundError")
          ELSE IF ~ ChangeFromJson(staged[entry]).ok THEN cut' = Raise(p, "ParseError")
          ELSE cut' = [Gathered(p, entry, ChangeFromJson(staged[entry]).change)
                         EXCEPT ![p].pc = "unlink", ![p].entry = Some(entry)]
    /\ UNCHANGED <<calc, gh, staged, relDir, releases, marker, changelog, printed, consumed,
                   am, remoteVars, nOps>>

\* a faulty variant of RaceUnlink: unlink(missing_ok=True)
RaceUnlinkMissingOk(p) ==
    /\ cut[p].pc = "unlink"
    /\ staged' = [f \in DOMAIN staged \ {Get(cut[p].entry)} |-> staged[f]]
    /\ cut' = [cut EXCEPT ![p].pc = "loop", ![p].entry = None]
    /\ UNCHANGED <<calc, gh, relDir, releases, marker, changelog, printed, consumed, am,
                   remoteVars, nOps>>

\* `entry.unlink()`: the file is removed, or FileNotFoundError when it is gone
RaceUnlink(p) ==
    /\ cut[p].pc = "unlink"
    /\ IF Get(cut[p].entry) \in DOMAIN staged
       THEN /\ staged' = Without(staged, Get(cut[p].entry))
            /\ cut' = [cut EXCEPT ![p].pc = "loop", ![p].entry = None]
       ELSE /\ cut' = Raise(p, "FileNotFoundError")
            /\ UNCHANGED staged
    /\ UNCHANGED <<calc, gh, relDir, releases, marker, changelog, printed, consumed, am,
                   remoteVars, nOps>>

RaceCut(p) ==
    \/ \E call \in ChangelogCalls :
            CutStart(p, "changelog", call.version, <<>>, call.bump, call.version_file,
                     call.date)
    \/ \E call \in ToolCalls :
            CutStart(p, "tool", None, call.version, None, None, call.date)
    \/ RaceRead(p)
    \/ RaceUnlink(p)
    \/ CheckStaged(p)
    \/ Resolve(p)
    \/ WriteRelease(p)
    \/ EmitChangelog(p)

RaceNext == \E p \in RaceProcs : RaceCut(p)

RaceSpec == RaceInit /\ [][RaceNext]_vars

(***************************************************************************)
(* Properties of the release cut.                                          *)
(***************************************************************************)
\* the staged entries a cut found when it was called
Enumerated(p) == GlobStaged(cut[p].pre.staged)

\* the change of a staged file as a release file stores it
StoredForm(data) == ChangeWrite(ChangeFromJson(data).change)

\* some persisted release holds the change of this staged file
InPersisted(data) ==
    \E n \in JsonReleases(releases) :
       \E i \in 1..Len(releases[n].changes) : releases[n].changes[i] = StoredForm(data)

\* the exceptions of the version resolution
ResolutionErrors == {"FileNotFoundError", "InvalidVersion", "NoBaseVersion"}

\* the cut has raised while it resolved the version
FailedResolving(p) ==
    cut[p].pc = "raised" /\ ~ cut[p].persisted /\ cut[p].outcome \in ResolutionErrors

\* a smithy_changelog cut has gone through the version resolution
PastResolve(p) ==
    /\ cut[p].variant = "changelog"
    /\ \/ cut[p].pc \in {"write", "emit", "return"}
       \/ cut[p].pc = "raised" /\ cut[p].outcome \notin {"ParseError", "NoStagedChanges"}

\* the resolution gave the bump of `base`
ResolvedFrom(p, base) ==
    /\ ~ FailedResolving(p)
    /\ cut[p].resolved = VersionStr(VersionBump(base, Get(cut[p].bump)))

\* C1: in every state of a cut, each staged entry the cut enumerated is still a staged
\* file or its change is held by a persisted release file.
C1_PersistBeforeDelete ==
    \A p \in Procs :
       cut[p].pc # "idle" =>
          \A f \in Enumerated(p) : f \in DOMAIN staged \/ InPersisted(cut[p].pre.staged[f])

\* C2: a cut that fails while it resolves the version leaves the set of staged files
\* and the set of release files as they were before the call.
C2_ResolutionFailureChangesNothing ==
    \A p \in Procs :
       FailedResolving(p) =>
          /\ DOMAIN staged = DOMAIN cut[p].pre.staged
          /\ DOMAIN releases = DOMAIN cut[p].pre.releases

\* C3: a cut that aborts on a malformed staged file has deleted no staged file and
\* written no release file.
C3_AllOrNothing ==
    \A p \in Procs :
       cut[p].pc = "raised" /\ cut[p].outcome = "ParseError" =>
          /\ staged = cut[p].pre.staged
          /\ releases = cut[p].pre.releases

\* C4: a cut that finds no staged change raises and leaves the staging directory, the
\* releases directory, the changelog file and the version file as they were.
C4_NoStagedChangesChangesNothing ==
    \A p \in Procs :
       cut[p].pc = "raised" /\ cut[p].outcome = "NoStagedChanges" =>
          /\ Enumerated(p) = {}
          /\ staged = cut[p].pre.staged
          /\ releases = cut[p].pre.releases
          /\ relDir = cut[p].pre.relDir
          /\ changelog = cut[p].pre.changelog
          /\ marker = cut[p].pre.marker

\* a cut has raised for lack of staged changes in a repository without a releases
\* directory
C4_Reached ==
    \E p \in Procs :
       cut[p].pc = "raised" /\ cut[p].outcome = "NoStagedChanges" /\ ~ cut[p].pre.relDir

\* C5: once a cut has written its release, every entry that was staged before the call
\* is gone, and the release file named by the resolved version holds exactly the
\* changes of those entries, the resolved version and the supplied date (today's date
\* when none was supplied).
C5_ReleaseHoldsStagedChanges ==
    \A p \in Procs :
       cut[p].persisted =>
          /\ Enumerated(p) # {}
          /\ Enumerated(p) \cap DOMAIN staged = {}
          /\ ReleaseFileName(cut[p].resolved) \in DOMAIN releases
          /\ \E file \in {releases[ReleaseFileName(cut[p].resolved)]} :
                /\ file.version = cut[p].resolved
                /\ file.date = IF IsNone(cut[p].args.release_date) THEN Today
                               ELSE Get(cut[p].args.release_date)
                /\ Len(file.changes) = Cardinality(Enumerated(p))
                /\ {file.changes[i] : i \in 1..Len(file.changes)}
                      = {StoredForm(cut[p].pre.staged[f]) : f \in Enumerated(p)}

\* a cut of two staged entries with a supplied date has returned
C5_Reached ==
    \E p \in Procs :
       /\ cut[p].pc = "return" /\ cut[p].outcome = "ok"
       /\ Cardinality(Enumerated(p)) = 2
       /\ ~ IsNone(cut[p].args.release_date)

\* C6: every change that a cut held when it wrote its release is an entry of exactly
\* one persisted release: the releases hold each change as many times as cuts that
\* wrote their release held it.
C6_ExactlyOneRelease ==
    \A k \in ChangeKeys : Occurrences(releases, k) = consumed[k]

NothingGiven(p) == IsNone(cut[p].args.version) /\ IsNone(cut[p].args.bump)

\* the bump the staged entries of the call ask for
StagedBump(p) ==
    IF \E f \in Enumerated(p) : Upper(cut[p].pre.staged[f].type) \in {"FEATURE", "BREAK"}
    THEN "minor" ELSE "patch"

V100 == <<"1", ".", "0", ".", "0">>
V110 == <<"1", ".", "1", ".", "0">>

\* C8: without a version and without a bump the cut bumps the minor part when a staged
\* change is a feature or a breaking change and the patch part otherwise; from a version
\* file holding 1.0.0 the release is 1.1.0 or 1.0.1 accordingly.
C8_DefaultBump ==
    \A p \in Procs :
       PastResolve(p) /\ NothingGiven(p) =>
          /\ Get(cut[p].bump) = StagedBump(p)
          /\ (/\ ~ IsNone(cut[p].args.version_file)
              /\ cut[p].pre.marker = Some(V100 \o <<"\n">>))
                => /\ cut[p].resolved = IF StagedBump(p) = "minor" THEN V110 ELSE V101
                   /\ cut[p].persisted =>
                         releases[ReleaseFileName(cut[p].resolved)].version
                            = cut[p].resolved

\* from a version file holding 1.0.0 a cut of a feature and a bugfix, called without a
\* version and without a bump, has written the release 1.1.0
C8_Reached ==
    \E p \in Procs :
       /\ cut[p].persisted /\ cut[p].variant = "changelog" /\ NothingGiven(p)
       /\ cut[p].pre.marker = Some(V100 \o <<"\n">>)
       /\ {cut[p].changes[i].type : i \in 1..Len(cut[p].changes)} = {"FEATURE", "BUGFIX"}
       /\ ReleaseFileName(V110) \in DOMAIN releases
       /\ ReleaseFileName(V110) \notin DOMAIN cut[p].pre.releases

\* C9: a cut that is given a version resolves to that version without reading the base
\* version, whatever the version file holds, and the release it writes has that version.
C9_ExplicitVersionVerbatim ==
    \A p \in Procs :
       /\ PastResolve(p) /\ ~ IsNone(cut[p].args.version) =>
             /\ ~ cut[p].baseRead
             /\ ~ FailedResolving(p)
             /\ cut[p].resolved = VersionStr(Get(cut[p].args.version))
             /\ cut[p].persisted =>
                   releases[ReleaseFileName(VersionStr(Get(cut[p].args.version)))].version
                      = VersionStr(Get(cut[p].args.version))
       /\ cut[p].variant = "tool" /\ cut[p].persisted =>
             releases[ReleaseFileName(cut[p].verstr)].version = cut[p].verstr

\* a cut that was given a version has written its release although the version file is
\* missing or malformed
C9_Reached ==
    \E p \in Procs :
       /\ cut[p].persisted /\ cut[p].variant = "changelog"
       /\ ~ IsNone(cut[p].args.version)
       /\ ~ IsNone(cut[p].args.version_file)
       /\ \/ IsNone(cut[p].pre.marker)
          \/ ~ VersionFromStr(Strip(Get(cut[p].pre.marker))).ok

\* the version the version file held when the cut was called
MarkerVersion(p) == VersionFromStr(Strip(Get(cut[p].pre.marker)))

\* the resolution gave the bump of the highest version among the release files
ResolvedFromHighest(p) ==
    \E n \in ReleaseFiles(cut[p].pre.releases) :
       /\ \A m \in ReleaseFiles(cut[p].pre.releases) :
             ~ VersionLt(VersionFromPath(n).v, VersionFromPath(m).v)
       /\ ResolvedFrom(p, VersionFromPath(n).v)

C11_BumpIncrements ==
    calc.fn = "bump" =>
        /\ calc.out.major = calc.in.major
        /\ calc.arg = "minor" =>
               calc.out.minor = calc.in.minor + 1 /\ calc.out.patch = 0
        /\ calc.arg = "patch" =>
               calc.out.minor = calc.in.minor /\ calc.out.patch = calc.in.patch + 1
        /\ VersionLt(calc.in, calc.out)
        /\ ~ VersionLt(calc.out, calc.in)

\* a minor bump of a version with a patch number has been computed
C11_Reached == calc.fn = "bump" /\ calc.arg = "minor" /\ calc.in.patch > 0

\* C12: parsing the text form of a version with non-negative components gives the
\* version back
C12_RoundTrip ==
    (calc.kind = "version" /\ calc.fn = "from_str") =>
        calc.out.ok /\ calc.out.v = calc.in

\* the text of a version with a component of two digits has been parsed back
C12_Reached ==
    /\ calc.kind = "version" /\ calc.fn = "from_str"
    /\ calc.in.minor >= 10
    /\ calc.out.ok

\* an integer as int() reads it: digits, behind at most one sign, inside blanks
IsIntegerText(p) ==
    \E a, b \in 1..Len(p) :
        /\ a <= b
        /\ \A k \in a..b : p[k] \in {"0", "1", "2", "3", "4", "5", "6", "7", "8", "9"}
        /\ \A k \in (b + 1)..Len(p) : p[k] \in {" ", "\n"}
        /\ \/ \A k \in 1..(a - 1) : p[k] \in {" ", "\n"}
           \/ /\ a > 1 /\ p[a - 1] \in {"+", "-"}
              /\ \A k \in 1..(a - 2) : p[k] \in {" ", "\n"}

\* exactly two dots, and an integer before, between and behind them
ThreeIntegerComponents(t) ==
    \E i, j \in 1..Len(t) :
        /\ i < j
        /\ \A k \in 1..Len(t) : t[k] = "." <=> k \in {i, j}
        /\ IsIntegerText(SubSeq(t, 1, i - 1))
        /\ IsIntegerText(SubSeq(t, i + 1, j - 1))
        /\ IsIntegerText(SubSeq(t, j + 1, Len(t)))

\* a file name that carries three integer components before its third dot
LeadingVersion(name) ==
    \E k \in 1..Len(name) :
        name[k] = "." /\ ThreeIntegerComponents(SubSeq(name, 1, k - 1))

DotCount(t) == Cardinality({k \in 1..Len(t) : t[k] = "."})

\* C13: from_str returns a version only for a text of exactly three dot-separated
\* integer components, and from_path only for a name that starts with three such
\* components and a dot; every other input (too few or too many components, an empty
\* or a non-numeric component) is refused
C13_MalformedVersionRefused ==
    /\ (calc.kind = "text" /\ calc.fn = "from_str") =>
           (calc.out.ok <=> ThreeIntegerComponents(calc.in))
    /\ (calc.kind = "name" /\ calc.fn = "from_path") =>
           (calc.out.ok <=> LeadingVersion(calc.in))

\* a text of four numeric components has been refused
C13_Reached ==
    /\ calc.kind = "text" /\ calc.fn = "from_str"
    /\ DotCount(calc.in) = 3
    /\ \A k \in 1..Len(calc.in) : calc.in[k] \in {"1", "."}
    /\ calc.in[1] = "1" /\ calc.in[Len(calc.in)] = "1"
    /\ \A k \in 1..(Len(calc.in) - 1) : ~ (calc.in[k] = "." /\ calc.in[k + 1] = ".")
    /\ ~ calc.out.ok

GroupOrder == <<"BREAK", "FEATURE", "BUGFIX", "DOCUMENTATION", "OTHER">>
GroupRank(t) == CHOOSE i \in 1..Len(GroupOrder) : GroupOrder[i] = t

\* where the changes of type t stand in the list
PositionsOf(changes, t) == {k \in 1..Len(changes) : changes[k].type = t}

\* the group holds the changes of its type, each once, in the order of the list
HoldsInOrder(group, changes) ==
    /\ Len(group.changes) = Cardinality(PositionsOf(changes, group.type))
    /\ \A k \in PositionsOf(changes, group.type) :
           group.changes[Cardinality({q \in PositionsOf(changes, group.type) : q <= k})]
               = changes[k]

\* C14: change_map gives one group per change type that occurs, in the order
\* Breaking, Feature, BugFix, Documentation, Other, and each group holds exactly the
\* changes of its type in the order in which the release lists them
C14_ChangeMapGroups ==
    calc.fn = "change_map" =>
        /\ {calc.out[i].type : i \in 1..Len(calc.out)}
               = {calc.in[k].type : k \in 1..Len(calc.in)}
        /\ \A i, j \in 1..Len(calc.out) :
               i < j => GroupRank(calc.out[i].type) < GroupRank(calc.out[j].type)
        /\ \A i \in 1..Len(calc.out) : HoldsInOrder(calc.out[i], calc.in)

\* a list that names a feature before a breaking change and two changes of one type
\* has been grouped
C14_Reached ==
    /\ calc.fn = "change_map"
    /\ Len(calc.in) = 3
    /\ calc.in[1].type = "FEATURE" /\ calc.in[2].type = "BREAK"
    /\ calc.in[3].type = "FEATURE" /\ calc.in[3] # calc.in[1]
    /\ Len(calc.out) = 2

(***************************************************************************)
(* Rendering order.                                                        *)
(***************************************************************************)
\* the listings of all release files, *.json and *.md, in which a file of a higher
\* version never stands behind one of a lower version
NewestFirstListings(dir) ==
    {o \in SortedOrders(LAMBDA a, b : FALSE, ReleaseFiles(dir)) :
        \A i, j \in 1..Len(o) :
            VersionLt(VersionFromPath(o[j]).v, VersionFromPath(o[i]).v) => i < j}

\* the step prints every release file, newest version first
PrintsNewestFirst ==
    \E o \in NewestFirstListings(releases) :
        printed' = Some([i \in 1..Len(o) |-> RenderedFile(releases, o[i]).out])

\* C15: render emits every persisted release, structured and legacy alike, in
\* descending order of the version in its file name, whatever the dates and the
\* order of the directory listing; stated for the render of both implementations
C15_RenderNewestFirst == [][(Render \/ ToolRender) => PrintsNewestFirst]_vars

\* the render of smithy_changelog, taken alone, prints newest first
ChangelogRenderNewestFirst == [][Render => PrintsNewestFirst]_vars

(***************************************************************************)
(* The GitHub client.                                                      *)
(***************************************************************************)
GhEnded == gh.pc \in {"returned", "raised"}

\* C16: post_comment called again with the same body and allow_duplicate false, on
\* a remote that lists what was created, creates nothing; the two calls together
\* create the comment once (not at all when it was there before the first call)
C16_PostCommentIdempotent ==
    (/\ gh.op = "post_comment" /\ ~ gh.allow_duplicate
     /\ gh.pc = "returned" /\ gh.before.pc = "returned") =>
        /\ gh.created = 0
        /\ gh.before.created = (IF gh.before.dup THEN 0 ELSE 1)
        /\ Cardinality({i \in 1..Len(issueComments) : issueComments[i] = gh.body}) >= 1

\* the second call has returned after the first created the comment, which the
\* listing shows on its second page
C16_Reached ==
    /\ gh.op = "post_comment" /\ ~ gh.allow_duplicate
    /\ gh.pc = "returned" /\ gh.before.pc = "returned"
    /\ gh.before.created = 1
    /\ gh.gets = 2
    /\ Cardinality({i \in 1..Len(issueComments) : issueComments[i] = gh.body}) = 1

\* the review comments that were there before the call
ReviewCommentsBefore == 1..(Len(reviewComments) - gh.created)

\* C17: post_review_comment with allow_duplicate false that returns has created no
\* comment exactly when a review comment with the same path and the same body was
\* there; the same body on another path or another body on the same path does not
\* suppress the creation
C17_ReviewDuplicateByPathAndBody ==
    (gh.op = "post_review_comment" /\ ~ gh.allow_duplicate /\ gh.pc = "returned") =>
        /\ gh.created \in {0, 1}
        /\ gh.created = 0 <=>
               \E i \in ReviewCommentsBefore :
                   /\ reviewComments[i].path = gh.file
                   /\ reviewComments[i].body = gh.body

\* a review comment was created although the body stood on another path and the
\* path carried another body
C17_Reached ==
    /\ gh.op = "post_review_comment" /\ ~ gh.allow_duplicate /\ gh.pc = "returned"
    /\ gh.created = 1
    /\ \E i \in ReviewCommentsBefore :
           reviewComments[i].path # gh.file /\ reviewComments[i].body = gh.body
    /\ \E i \in ReviewCommentsBefore :
           reviewComments[i].path = gh.file /\ reviewComments[i].body # gh.body

\* C18: post_review_comment with end_line set and start_line unset always fails,
\* whatever comments the remote holds: it never returns normally and never creates
\* a comment
C18_EndLineAloneFails ==
    (/\ gh.op = "post_review_comment" /\ IsNone(gh.start_line) /\ ~ IsNone(gh.end_line)
     /\ GhEnded) =>
        /\ gh.pc = "raised"
        /\ gh.created = 0

\* C19: with the bearer credential or the commit reference absent, every remote
\* operation fails with a configuration error and issues no request
C19_NoContextNoRequest ==
    (gh.pc # "none" /\ (~ gh.token \/ ~ gh.sha)) =>
        /\ gh.gets + gh.posts = 0
        /\ gh.pc # "returned"
        /\ gh.pc = "raised" => gh.err \in {"GITHUB_TOKEN", "TARGET_SHA"}

\* what the operation reads from the execution context is absent
ContextMissing == ~ gh.token \/ (gh.op = "post_review_comment" /\ ~ gh.sha)

\* C19, as the code has it: an operation issues no request and creates nothing when
\* the credential is absent or, for post_review_comment, the commit reference is; it
\* fails with the error that names the missing variable, except that
\* post_review_comment with allow_duplicate, the commit reference and end_line
\* without start_line fails on the anchor before it looks for the credential
C19_MissingContextNoRequest ==
    (gh.pc # "none" /\ ContextMissing) =>
        /\ gh.gets + gh.posts = 0
        /\ gh.created = 0
        /\ gh.pc # "returned"
        /\ gh.pc = "raised" =>
              \/ gh.err = (IF gh.op = "post_review_comment" /\ ~ gh.sha
                           THEN "TARGET_SHA" ELSE "GITHUB_TOKEN")
              \/ /\ gh.err = "end_line"
                 /\ gh.op = "post_review_comment" /\ gh.allow_duplicate /\ gh.sha
                 /\ IsNone(gh.start_line) /\ ~ IsNone(gh.end_line)

\* post_review_comment has failed for the missing credential although review
\* comments are there to list
C19_Reached ==
    /\ gh.op = "post_review_comment" /\ gh.sha /\ ~ gh.token
    /\ gh.pc = "raised" /\ gh.err = "GITHUB_TOKEN"
    /\ Len(reviewComments) > 0
    /\ gh.gets + gh.posts = 0

\* an error response ends the operation at that request: every page was requested
\* once, the creation at most once, a delay was taken only between pages that
\* arrived, and nothing was created
RemoteErrorNotRetried ==
    gh.status = "error" =>
        /\ gh.pc = "raised"
        /\ gh.created = 0
        /\ gh.sleeps = gh.page - 1
        /\ \/ gh.posts = 0 /\ gh.gets = gh.page
           \/ gh.posts = 1 /\ gh.gets = (IF gh.allow_duplicate THEN 0 ELSE gh.page)

\* C20: a non-2xx response makes the operation fail with the one remote-API error
\* type after a single attempt of that request: no retry, no further page, no
\* delay, no comment created
C20_RemoteErrorFailsOnce ==
    /\ RemoteErrorNotRetried
    /\ gh.status = "error" => gh.err = "GitHubAPIError"

(***************************************************************************)
(* amend(): claims C21, C26, C27 and C28, checked under AmendSpec.         *)
(***************************************************************************)
\* the staged file f holds an entry that names at least one pull request
Referenced(dir, f) ==
    /\ ChangeFromJson(dir[f]).ok
    /\ ChangeFromJson(dir[f]).change.pull_requests # <<>>

\* the review comments that a step has added
AddedReviews ==
    {reviewComments'[i] : i \in (Len(reviewComments) + 1)..Len(reviewComments')}

\* a step of an amend run: the run starts, handles an entry, or ends
AmendStep == am' # am

\* C21: no step of an amend run, in either mode, changes a staged file whose entry
\* already names a pull request, and no suggestion is posted on such a file: the
\* reference that was written first stays
C21_ReferencedNeverOverwritten ==
    [][AmendStep =>
         \A f \in DOMAIN staged :
            Referenced(staged, f) =>
               /\ f \in DOMAIN staged'
               /\ staged'[f] = staged[f]
               /\ \A c \in AddedReviews : c.path # f]_vars

\* an amend run has gone through its whole list, and the list named an entry that
\* had a reference of another origin than this run
C21_Reached ==
    /\ am.pc = "loop" /\ am.todo = <<>>
    /\ \E i \in 1..Len(am.diff) :
          /\ Referenced(staged, am.diff[i])
          /\ ChangeFromJson(staged[am.diff[i]]).change.pull_requests
                # <<PrRef(am.pr_number)>>

(***************************************************************************)
(* Staging: claim C22, checked under ValueSpec.                            *)
(***************************************************************************)
\* the serialized forms of the changes of a list, as write_new_change stores them
SerializedForms(changes) ==
    {ChangeWrite(ReplaceIssueReferences(changes[i])) : i \in 1..Len(changes)}

\* C22: after any list of changes was staged, every staged file is named by the
\* type tag and the digest of the serialized form it holds, and there is exactly one
\* file for each distinct serialized form: the same change staged again adds no
\* file, and changes with different serialized forms never share a file
C22_StagedOncePerContent ==
    calc.fn = "stage" =>
        /\ \A f \in DOMAIN calc.out :
              /\ calc.out[f] \in SerializedForms(calc.in)
              /\ f = [tag |-> calc.out[f].type, digest |-> Sha1(calc.out[f]),
                      ext |-> "json"]
        /\ \A c \in SerializedForms(calc.in) :
              Cardinality({f \in DOMAIN calc.out : calc.out[f] = c}) = 1
        /\ Cardinality(DOMAIN calc.out) = Cardinality(SerializedForms(calc.in))

\* a change was staged, another change of the same type, and the first one again,
\* and two files are staged
C22_Reached ==
    /\ calc.fn = "stage" /\ Len(calc.in) = 3
    /\ calc.in[1] = calc.in[3] /\ calc.in[1] # calc.in[2]
    /\ calc.in[1].type = calc.in[2].type
    /\ calc.in[1].pull_requests # <<>>
    /\ Cardinality(DOMAIN calc.out) = 2

(***************************************************************************)
(* The description of a change: claim C23, checked under ValueSpec.        *)
(***************************************************************************)
\* the texts among DescriptionInputs that str.strip() leaves empty
BlankTexts == {"", " ", " \n"}

\* C23: a change that was loaded from the content of a file, and a change that
\* new_change has staged, has a description that is not empty after trimming; a
\* blank description is rejected
C23_DescriptionNeverBlank ==
    /\ (calc.fn = "from_json" /\ calc.out.ok) =>
            calc.out.change.description \notin BlankTexts
    /\ calc.fn = "new_change" =>
            \A f \in DOMAIN calc.out : calc.out[f].description \notin BlankTexts

(***************************************************************************)
(* Pagination: claims C24 (under RemoteFairSpec) and C25 (under            *)
(* RemoteSpec).                                                            *)
(***************************************************************************)
IsListOp(op) == op \in {"get_comments", "get_review_comments"}

\* the number of pages of a listing of n comments: the first page is always there
PageCount(n) == IF n = 0 THEN 1 ELSE (n + PerPage - 1) \div PerPage

\* a listing that has returned has yielded every comment of every page in the order
\* of the pages, with one request per page and none behind the last page
ListedInPageOrder ==
    (IsListOp(gh.op) /\ gh.pc = "returned") =>
        /\ gh.seen = Listed(gh.op)
        /\ gh.gets = PageCount(Len(Listed(gh.op)))
        /\ gh.page = gh.gets

\* C24: listing the comments requests the first page and follows the next link of
\* each response; it yields the comments of all pages in page order and ends right
\* behind the first page without a next link, and every listing that was begun
\* comes to an end
C24_ListingTerminates ==
    /\ []ListedInPageOrder
    /\ (IsListOp(gh.op) /\ gh.pc = "list") ~> (gh.pc \in {"returned", "raised"})

\* a listing of three comments has returned after two pages
C24_Reached ==
    /\ IsListOp(gh.op) /\ gh.pc = "returned"
    /\ Len(gh.seen) = 3 /\ gh.gets = 2 /\ gh.sleeps = 1

\* the duplicate scan of a post operation has stopped at a listed comment
ScanStopped ==
    /\ IsPostOp(gh.op) /\ ~ gh.allow_duplicate
    /\ gh.pc = "returned" /\ gh.posts = 0

\* the position in the listing of the first comment at which the scan stops
FirstDuplicate ==
    CHOOSE i \in 1..Len(Listed(gh.op)) :
        /\ IsDuplicate(gh, Listed(gh.op)[i])
        /\ \A j \in 1..(i - 1) : ~ IsDuplicate(gh, Listed(gh.op)[j])

\* the page that holds the i-th comment of a listing
PageHolding(i) == ((i - 1) \div PerPage) + 1

\* C25: a consumer that stops within page k has caused k page requests and k - 1
\* delays; a delay is taken only between the arrival of a page and the request of
\* the next one, never before the first request and never behind the last page
\* that was requested
C25_LazyPagination ==
    /\ ScanStopped =>
          /\ gh.gets = PageHolding(FirstDuplicate)
          /\ gh.sleeps = PageHolding(FirstDuplicate) - 1
          /\ gh.seen = SubSeq(Listed(gh.op), 1, FirstDuplicate)
    /\ gh.sleeps = (IF gh.pc = "list" \/ gh.gets = 0 THEN gh.gets ELSE gh.gets - 1)

\* the scan has stopped in the first page while the listing has a second page: one
\* request, no delay
C25_Reached ==
    /\ ScanStopped
    /\ gh.gets = 1 /\ gh.sleeps = 0
    /\ Len(Listed(gh.op)) > PerPage

\* the step that begins an amend run
AmendStartStep == am.pc = "idle" /\ am'.pc # "idle"

\* the reminder of the run is among the issue comments
Reminded(comments, pr_number) ==
    \E i \in 1..Len(comments) : comments[i] = Reminder(pr_number)

\* C26: an issue comment is added only by the start of a run in review-comment mode
\* that found no newly staged entry; it is the reminder, added once and only when
\* it was not there yet; such a run that goes on has the reminder among the issue
\* comments; and no step posts the reminder as a review comment
C26_ReminderWhenNothingStaged ==
    [][/\ issueComments' # issueComments =>
             /\ AmendStartStep
             /\ am'.review_comment /\ am'.diff = <<>>
             /\ ~ Reminded(issueComments, am'.pr_number)
             /\ issueComments' = Append(issueComments, Reminder(am'.pr_number))
       /\ (AmendStartStep /\ am'.pc = "loop" /\ am'.review_comment /\ am'.diff = <<>>) =>
             Reminded(issueComments', am'.pr_number)
       /\ \A c \in AddedReviews : c.body.kind # "reminder"]_vars

\* a run in review-comment mode has found no new entry although entries are staged,
\* and the reminder is posted once
C26_Reached ==
    /\ am.pc = "loop" /\ am.review_comment /\ am.diff = <<>>
    /\ GlobStaged(staged) # {}
    /\ issueComments = <<Reminder(am.pr_number)>>

\* the entry that the run handles in this step
Handled == ChangeFromJson(staged[Head(am.todo)]).change

\* the suggestion for the entry handled in this step: its serialized form with the
\* reference of the run as the only pull request
ExpectedSuggestion ==
    Suggestion([Handled EXCEPT !.pull_requests = <<PrRef(am.pr_number)>>])

\* the positions of the review comments on a file with a body
Matching(comments, path, body) ==
    {i \in 1..Len(comments) : comments[i].path = path /\ comments[i].body = body}

\* the step of a run in review-comment mode that handles an entry without reference
ReviewStep ==
    /\ am.pc = "loop" /\ am.todo # <<>> /\ am.review_comment
    /\ am'.todo = Tail(am.todo)
    /\ ~ Referenced(staged, Head(am.todo))

\* C27: in review-comment mode the staged files are left as they are; the step for
\* a new entry without reference that succeeds leaves exactly one review comment on
\* that file with the suggestion as its body; when that comment was listed before,
\* nothing is added; otherwise the one comment added is anchored to the lines 1 to
\* 5, the last line of an entry as Change.write lays it out
C27_OneSuggestionPerEntry ==
    [][/\ (AmendStep /\ (am.review_comment \/ am'.review_comment)) => staged' = staged
       /\ (ReviewStep /\ am'.pc = "raised") => reviewComments' = reviewComments
       /\ (ReviewStep /\ am'.pc = "loop") =>
             /\ Cardinality(Matching(reviewComments', Head(am.todo),
                                     ExpectedSuggestion)) = 1
             /\ IF Matching(reviewComments, Head(am.todo), ExpectedSuggestion) # {}
                THEN reviewComments' = reviewComments
                ELSE reviewComments' =
                        Append(reviewComments,
                               [path |-> Head(am.todo), body |-> ExpectedSuggestion,
                                start_line |-> Some(1), line |-> Some(5)])]_vars

\* a run in review-comment mode has handled two new entries without reference, and
\* each has its suggestion
C27_Reached ==
    /\ am.pc = "loop" /\ am.review_comment /\ am.todo = <<>>
    /\ Len(am.diff) = 2
    /\ \A i \in 1..2 : ~ Referenced(staged, am.diff[i])
    /\ Len(reviewComments) = 2
    /\ \A i \in 1..2 : /\ reviewComments[i].path = am.diff[i]
                        /\ reviewComments[i].line = Some(5)

\* the step of a run in direct-patch mode that handles an entry
DirectStep ==
    /\ am.pc = "loop" /\ am.todo # <<>> /\ ~ am.review_comment
    /\ am'.todo = Tail(am.todo)

\* C28: a run in direct-patch mode calls no remote operation and leaves the comments
\* of the pull request as they are; the step for a new entry changes no other staged
\* file and adds or removes none; an entry that had no reference reads afterwards
\* with its type and description as before and with the canonical reference of the
\* pull request as its only pull request
C28_DirectPatchOnlyReference ==
    [][/\ (AmendStep /\ ~ am'.review_comment /\ am'.pc # "idle") =>
             /\ am'.remote = 0
             /\ remoteVars' = remoteVars
       /\ DirectStep =>
             /\ DOMAIN staged' = DOMAIN staged
             /\ \A g \in DOMAIN staged : g # Head(am.todo) => staged'[g] = staged[g]
             /\ ~ Referenced(staged, Head(am.todo)) =>
                   ChangeFromJson(staged'[Head(am.todo)]) =
                      [ok |-> TRUE,
                       change |-> [type |-> Handled.type,
                                   description |-> Handled.description,
                                   pull_requests |->
                                      <<"[#9](https://github.com/smithy-lang/smithy/pull/9)">>]]
      ]_vars

\* a run in direct-patch mode for pull request 9 has written the reference into a
\* new entry, and another staged entry that was not new has none
C28_Reached ==
    /\ am.pc = "loop" /\ ~ am.review_comment /\ am.todo = <<>> /\ am.pr_number = "9"
    /\ \E i \in 1..Len(am.diff) :
          staged[am.diff[i]].pull_requests = <<PrRef("9")>>
    /\ \E g \in GlobStaged(staged) :
          /\ \A i \in 1..Len(am.diff) : am.diff[i] # g
          /\ ChangeFromJson(staged[g]).ok /\ ~ Referenced(staged, g)

(***************************************************************************)
(* Concurrent release cuts: claims C29 and C30, checked under RaceSpec.    *)
(***************************************************************************)
\* both invocations have read the same staged change
SharedChange ==
    \E i \in 1..Len(cut[1].changes), j \in 1..Len(cut[2].changes) :
        cut[1].changes[i] = cut[2].changes[j]

\* the invocation has left the gather loop with its changes
PastGather(p) == cut[p].pc \in {"resolve", "write", "emit", "return"} \/ cut[p].persisted

Lost(change) ==
    /\ \A f \in GlobStaged(staged) : ChangeFromJson(staged[f]).change # change
    /\ Occurrences(releases, Key(change)) = 0

====
